---- MODULE Spec2Model ----
(***************************************************************************)
(* A model of the_snake.py: the snake engine (Snake), food placement       *)
(* (Food.randomize_position), the session state (GameState) and the tick   *)
(* loop (main, initialize_game, game_loop, _handle_events, _handle_food).  *)
(*                                                                         *)
(* The window is scaled down from 640x480 to a few cells per axis; cells   *)
(* are pairs <<x, y>> with 0 <= x < GRID_WIDTH and 0 <= y < GRID_HEIGHT.   *)
(* Every call of the random module is a nondeterministic choice over all   *)
(* the values it can return.                                               *)
(***************************************************************************)
EXTENDS Integers, Sequences, FiniteSets, TLC

\* ---------------------------------------------------------------- bounds
\* Window size in pixels (640 x 480 in the source), scaled down.
SCREEN_WIDTH == 60
SCREEN_HEIGHT == 40
\* Most obstacles of a session (random.randint(1, 5) in the source).
MaxObstacles == 1
\* Longest snake the model lets grow.
MaxLength == 3
\* Most presses of the keys a, s, z, x in one run of the process.
MaxCountKeys == 1
\* Most key events of one tick window.
MaxEvents == 2
\* Largest integer found in the high score file.
MaxStoredScore == 1
\* Largest tick rate the keys q and w are followed to.
MaxSpeed == 21
\* Largest food count the keys a, s, z and x are followed to.
MaxFoodCount == 2
\* Most obstacles of a session where sessions are followed one after another.
MaxSessionObstacles == 3

\* ------------------------------------------------------------- constants
GRID_SIZE == 20
GRID_WIDTH == SCREEN_WIDTH \div GRID_SIZE
GRID_HEIGHT == SCREEN_HEIGHT \div GRID_SIZE

UP == <<0, -1>>
DOWN == <<0, 1>>
LEFT == <<-1, 0>>
RIGHT == <<1, 0>>

\* Python's None, as a value comparable with cells and directions.
None == <<>>

\* No key yet, as a value comparable with keys.
NoKey == "none"

DirectionKeys == {"K_UP", "K_DOWN", "K_LEFT", "K_RIGHT"}
CountKeys == {"K_a", "K_s", "K_z", "K_x"}
SpeedKeys == {"K_q", "K_w"}
SettingKeys == SpeedKeys \cup CountKeys

DIRECTION_MAP ==
    (<<"K_UP", RIGHT>> :> UP) @@ (<<"K_UP", LEFT>> :> UP) @@
    (<<"K_DOWN", RIGHT>> :> DOWN) @@ (<<"K_DOWN", LEFT>> :> DOWN) @@
    (<<"K_LEFT", UP>> :> LEFT) @@ (<<"K_LEFT", DOWN>> :> LEFT) @@
    (<<"K_RIGHT", UP>> :> RIGHT) @@ (<<"K_RIGHT", DOWN>> :> RIGHT)

\* A slip in DIRECTION_MAP: one entry more, (K_LEFT, RIGHT): LEFT.
DirectionMapGetReversing(key, dir) ==
    IF key = "K_LEFT" /\ dir = RIGHT THEN LEFT
    ELSE IF <<key, dir>> \in DOMAIN DIRECTION_MAP
    THEN DIRECTION_MAP[<<key, dir>>]
    ELSE None

\* DIRECTION_MAP.get((key, direction)): None when the pair is not a key.
DirectionMapGet(key, dir) ==
    IF <<key, dir>> \in DOMAIN DIRECTION_MAP
    THEN DIRECTION_MAP[<<key, dir>>]
    ELSE None

ALL_CELLS == {<<x, y>> : x \in 0..(GRID_WIDTH - 1), y \in 0..(GRID_HEIGHT - 1)}
CENTER_POSITION == <<GRID_WIDTH \div 2, GRID_HEIGHT \div 2>>

GROW == "grow"
SHRINK == "shrink"

SPEED == 20

\* ------------------------------------------------------------- variables
VARIABLES
    pc,                  \* where main / game_loop stands
    positions,           \* Snake.positions, head first
    direction,           \* Snake.direction
    last,                \* Snake._last
    removed_positions,   \* Snake._removed_positions
    foods,               \* foods = apples + rotten_apples: [kind, position]
    obstacles,           \* the positions of the obstacles, in list order
    high_score,          \* GameState.high_score
    apple_count,         \* GameState.apple_count
    rotten_apple_count,  \* GameState.rotten_apple_count
    current_speed,       \* GameState.current_speed
    high_score_file,     \* what HIGH_SCORE_FILE holds
    window_direction,    \* history: direction at the start of the tick window
    last_direction_key,  \* history: last direction key of the tick window
    tick,                \* history: what the latest tick of the session did
    count_keys,          \* history: presses of a, s, z, x so far
    last_setting,        \* history: the latest setting key and what it found
    peak_length          \* history: max of the loaded score and the lengths at tick ends

vars == <<pc, positions, direction, last, removed_positions, foods, obstacles,
          high_score, apple_count, rotten_apple_count, current_speed,
          high_score_file, window_direction, last_direction_key, tick,
          count_keys, last_setting, peak_length>>

snake_vars == <<positions, direction, last, removed_positions>>
state_vars == <<high_score, apple_count, rotten_apple_count, current_speed>>

\* ----------------------------------------------------------------- helpers
Max(a, b) == IF a >= b THEN a ELSE b

ToSet(s) == {s[k] : k \in 1..Len(s)}

\* list[1:]
Rest(s) == SubSeq(s, 2, Len(s))

\* list.pop(): the list without its last element
Front(s) == SubSeq(s, 1, Len(s) - 1)

\* The value of tick before the first tick of a session.
NoTick == [ticked |-> FALSE]

\* ------------------------------------------------------------ Snake engine
\* A slip in lines 201-204: the modulo is left out.
AdvanceUnwrapped(head, dir) == <<head[1] + dir[1], head[2] + dir[2]>>

\* Snake.move, lines 201-204: the cell in front of the head, each axis modulo
\* its extent.
Advance(head, dir) ==
    <<(head[1] + dir[1]) % GRID_WIDTH, (head[2] + dir[2]) % GRID_HEIGHT>>

\* Snake.teleport: an out-of-range head is put on the opposite edge.
Teleport(ps) ==
    LET head == ps[1] IN
    IF head[1] < 0 THEN [ps EXCEPT ![1] = <<GRID_WIDTH - 1, head[2]>>]
    ELSE IF head[1] >= GRID_WIDTH THEN [ps EXCEPT ![1] = <<0, head[2]>>]
    ELSE IF head[2] < 0 THEN [ps EXCEPT ![1] = <<head[1], GRID_HEIGHT - 1>>]
    ELSE IF head[2] >= GRID_HEIGHT THEN [ps EXCEPT ![1] = <<head[1], 0>>]
    ELSE ps

\* A slip in line 208: the tail is not popped.
ShiftKeepingTail(ps, new_head) == Teleport(<<new_head>> \o ps)

\* Snake.move, lines 207-209: insert the new head, pop the tail, teleport.
Shift(ps, new_head) == Teleport(Front(<<new_head>> \o ps))

\* Snake.check_self_bite
CheckSelfBite(ps) == Len(ps) > 1 /\ ps[1] \in ToSet(Rest(ps))

\* A slip in line 213: the self-bite leaves the body as the shift made it.
SelfBiteBodyKept(shifted, head) == shifted

\* Snake.move, line 213: the body a self-bite leaves. `shifted` is the body
\* after the shift, `head` the head the snake had before the step.
SelfBiteBody(shifted, head) == <<head>>

\* Snake.move: the fields of the snake after one step.
MoveSnake(ps, dir, removed) ==
    LET head == ps[1]
        new_head == Advance(head, dir)
        shifted == Shift(ps, new_head)
        bite == CheckSelfBite(shifted)
    IN [positions |-> IF bite THEN SelfBiteBody(shifted, head) ELSE shifted,
        last |-> ps[Len(ps)],
        removed_positions |-> IF bite THEN removed \cup ToSet(Rest(shifted))
                              ELSE removed,
        new_head |-> new_head,
        self_bite |-> bite]

\* Snake.update_direction
UpdateDirection(current, requested) ==
    IF requested = None THEN current ELSE requested

\* In the three operators below s holds the fields of the snake that the food
\* effects act on: [positions, last, removed_positions].

\* A slip in Snake.grow: nothing is appended.
GrowNothing(s) == s

\* A slip in Snake.grow: the tail the step left is appended, not _last.
GrowPostStepTail(s) ==
    [s EXCEPT !.positions = Append(s.positions, s.positions[Len(s.positions)])]

\* Snake.grow
Grow(s) == [s EXCEPT !.positions = Append(s.positions, s.last)]

\* A slip in Snake.shrink: nothing is removed.
ShrinkNothing(s) == s

\* A slip in Snake.shrink: the test of the length is left out.
ShrinkUnguarded(s) ==
    [positions |-> Front(s.positions),
     last |-> s.positions[Len(s.positions)],
     removed_positions |-> s.removed_positions
                           \cup {s.positions[Len(s.positions)]}]

\* Snake.shrink
Shrink(s) ==
    IF Len(s.positions) > 1
    THEN [positions |-> Front(s.positions),
          last |-> s.positions[Len(s.positions)],
          removed_positions |-> s.removed_positions
                                \cup {s.positions[Len(s.positions)]}]
    ELSE s

\* Snake.apply_effect with Snake._effect_map
ApplyEffect(effect, s) == IF effect = GROW THEN Grow(s) ELSE Shrink(s)

\* A slip in Snake.check_collision: the tail is tested, not the head.
CheckCollisionTail(ps, obs) == ps[Len(ps)] \in ToSet(obs)

\* Snake.check_collision
CheckCollision(ps, obs) == ps[1] \in ToSet(obs)

\* Snake.check_eat
CheckEat(ps, food) == ps[1] = food.position

\* -------------------------------------------------------------- placement
\* A slip in Food.randomize_position: the occupied cells are not taken out.
RandomizePositionAnywhere(occupied_positions) == ALL_CELLS

\* Food.randomize_position: the cells random.choice can return.
RandomizePosition(occupied_positions) == ALL_CELLS \ occupied_positions

\* initialize_game, lines 364-370: the positions the foods can be given, one
\* after the other, each added to the occupied cells of the next.
RECURSIVE PlaceFoods(_, _)
PlaceFoods(n, occupied_positions) ==
    IF n = 0 THEN {<<>>}
    ELSE UNION {{<<c>> \o rest : rest \in PlaceFoods(n - 1, occupied_positions \cup {c})} :
                c \in RandomizePosition(occupied_positions)}

\* initialize_game, lines 351-357: the lists of obstacle positions
\* random.randint can produce, of at most `most` obstacles.
ObstacleDrawsUpTo(most) == UNION {[1..n -> ALL_CELLS] : n \in 1..most}

ObstacleDraws == ObstacleDrawsUpTo(MaxObstacles)

SessionObstacleDraws == ObstacleDrawsUpTo(MaxSessionObstacles)

\* A slip in initialize_game: one apple, whatever apple_count is.
MakeFoodsOneApple(cells, apples) ==
    [k \in 1..Len(cells) |->
        [kind |-> IF k <= 1 THEN GROW ELSE SHRINK, position |-> cells[k]]]

\* foods = apples + rotten_apples
MakeFoods(cells, apples) ==
    [k \in 1..Len(cells) |->
        [kind |-> IF k <= apples THEN GROW ELSE SHRINK, position |-> cells[k]]]

\* ------------------------------------------------------------ high score
\* What open() and json.load can find in HIGH_SCORE_FILE: no file
\* (FileNotFoundError), text that is not JSON (json.JSONDecodeError), bytes
\* that are not text (UnicodeDecodeError, which line 311 does not catch), or
\* an integer.
AllFileContents ==
    {[kind |-> "missing", value |-> 0], [kind |-> "malformed", value |-> 0],
     [kind |-> "undecodable", value |-> 0]}
    \cup {[kind |-> "int", value |-> n] : n \in 0..MaxStoredScore}

\* A first launch: there is no file yet.
FileContents == {[kind |-> "missing", value |-> 0]}

\* GameState.load_high_score, line 311: the exceptions that are caught.
Caught(content) == content.kind \in {"missing", "malformed"}

\* GameState.load_high_score: an exception that is not caught leaves the
\* function, and main.
LoadRaises(content) == content.kind = "undecodable"

\* GameState.load_high_score
LoadedHighScore(content) == IF Caught(content) THEN 0 ELSE content.value

\* GameState.update_speed
UpdateSpeed(new_speed) == new_speed

\* A slip in KEY_ACTIONS, line 52: max(1, ...) is left out.
SlowDownUnclamped(speed) == UpdateSpeed(speed - 1)

\* KEY_ACTIONS, lines 51-53: K_q
SlowDown(speed) == UpdateSpeed(Max(1, speed - 1))

\* KEY_ACTIONS, lines 54-56: K_w
SpeedUp(speed) == UpdateSpeed(speed + 1)

\* GameState.update_apple_count
UpdateAppleCount(count, delta) == Max(1, count + delta)

\* GameState.update_rotten_apple_count
UpdateRottenAppleCount(count, delta) == Max(1, count + delta)

\* game_loop, lines 427-428
UpdateHighScore(score, length) == IF length > score THEN length ELSE score

\* ---------------------------------------------------------- _handle_events
\* handle_keys with KEY_ACTIONS: what one KEYDOWN event does to the fields
\* the keys act on, g = [direction, apple_count, rotten_apple_count,
\* current_speed].
HandleKeys(key, g) ==
    CASE key \in DirectionKeys ->
           [g EXCEPT !.direction =
               UpdateDirection(g.direction, DirectionMapGet(key, g.direction))]
      [] key = "K_q" ->
           [g EXCEPT !.current_speed = SlowDown(g.current_speed)]
      [] key = "K_w" ->
           [g EXCEPT !.current_speed = SpeedUp(g.current_speed)]
      [] key = "K_a" ->
           [g EXCEPT !.apple_count = UpdateAppleCount(g.apple_count, 1)]
      [] key = "K_s" ->
           [g EXCEPT !.apple_count = UpdateAppleCount(g.apple_count, -1)]
      [] key = "K_z" ->
           [g EXCEPT !.rotten_apple_count =
               UpdateRottenAppleCount(g.rotten_apple_count, 1)]
      [] key = "K_x" ->
           [g EXCEPT !.rotten_apple_count =
               UpdateRottenAppleCount(g.rotten_apple_count, -1)]

\* _handle_events: the events of the queue, handled in order.
RECURSIVE HandleEvents(_, _)
HandleEvents(events, g) ==
    IF events = <<>> THEN g
    ELSE HandleEvents(Rest(events), HandleKeys(events[1], g))

\* The queues of arrow key events of one tick window.
EventQueues == UNION {[1..n -> DirectionKeys] : n \in 0..MaxEvents}

\* What _handle_events can leave of g, over the queues of one window.
HandledEvents(g) == {HandleEvents(events, g) : events \in EventQueues}

\* ------------------------------------------------------------ _handle_food
\* The outcomes of _handle_food from item i on: `s` holds the fields of the
\* snake, `fs` the foods, `log` the foods eaten so far with the body each
\* effect left. random.choice of no free cell raises IndexError.
RECURSIVE HandleFood(_, _, _, _, _)
HandleFood(i, s, fs, obstacle_position, log) ==
    IF i > Len(fs)
    THEN {[snake |-> s, foods |-> fs, eaten |-> log, crashed |-> FALSE]}
    ELSE IF ~CheckEat(s.positions, fs[i])
    THEN HandleFood(i + 1, s, fs, obstacle_position, log)
    ELSE LET after == ApplyEffect(fs[i].kind, s)
             occupied_positions == ToSet(after.positions) \cup obstacle_position
             free_cells == RandomizePosition(occupied_positions)
         IN IF free_cells = {}
            THEN {[snake |-> after, foods |-> fs, eaten |-> log, crashed |-> TRUE]}
            ELSE UNION {HandleFood(i + 1, after,
                                   [fs EXCEPT ![i].position = c],
                                   obstacle_position,
                                   Append(log, [index |-> i,
                                                body |-> after.positions])) :
                        c \in free_cells}

\* The value of last_setting before the first setting key.
NoSetting == [key |-> NoKey]

\* ----------------------------------------------------------------- actions
\* main, line 445: GameState(), with HIGH_SCORE_FILE as one of `files`.
InitWith(files) ==
    /\ high_score_file \in files
    /\ current_speed = SPEED
    /\ last_setting = NoSetting
    /\ pc = "load"
    /\ positions = <<>>
    /\ direction = None
    /\ last = None
    /\ removed_positions = {}
    /\ foods = <<>>
    /\ obstacles = <<>>
    /\ high_score = 0
    /\ apple_count = 1
    /\ rotten_apple_count = 1
    /\ window_direction = None
    /\ last_direction_key = NoKey
    /\ tick = NoTick
    /\ count_keys = 0
    /\ peak_length = 0

Init == InitWith(FileContents)

InitSessions == InitWith(AllFileContents)

\* main, line 446: game_state.load_high_score()
LoadHighScore ==
    /\ pc = "load"
    /\ IF LoadRaises(high_score_file)
       THEN /\ pc' = "crashed"
            /\ UNCHANGED <<high_score, peak_length>>
       ELSE /\ pc' = "initialize"
            /\ high_score' = LoadedHighScore(high_score_file)
            /\ peak_length' = LoadedHighScore(high_score_file)
    /\ UNCHANGED <<snake_vars, foods, obstacles, apple_count, rotten_apple_count,
                   current_speed, high_score_file, window_direction,
                   last_direction_key, tick, count_keys, last_setting>>

\* main, line 450: initialize_game, its obstacles one of `draws`.
InitializeGameWith(draws) ==
    /\ pc = "initialize"
    /\ \E obs \in draws :
        LET occupied_positions == {CENTER_POSITION} \cup ToSet(obs)
            placements == PlaceFoods(apple_count + rotten_apple_count,
                                     occupied_positions)
        IN /\ obstacles' = obs
           /\ IF placements = {}
              THEN /\ pc' = "crashed"
                   /\ UNCHANGED foods
              ELSE /\ pc' = "events"
                   /\ \E cells \in placements :
                        foods' = MakeFoods(cells, apple_count)
    /\ positions' = <<CENTER_POSITION>>
    /\ direction' = RIGHT
    /\ last' = CENTER_POSITION
    /\ removed_positions' = {}
    /\ window_direction' = RIGHT
    /\ last_direction_key' = NoKey
    /\ tick' = NoTick
    /\ UNCHANGED <<state_vars, high_score_file, count_keys, last_setting,
                   peak_length>>

InitializeGame == InitializeGameWith(ObstacleDraws)

\* The fields of the snake and the session that the key events act on.
KeyFields ==
    [direction |-> direction, apple_count |-> apple_count,
     rotten_apple_count |-> rotten_apple_count,
     current_speed |-> current_speed]

\* game_loop, lines 410-438: one iteration after _handle_events has left g:
\* move, draw, the collision check, _handle_food and the high score.
Iterate(g) ==
    /\ pc = "events"
    /\ LET moved == MoveSnake(positions, g.direction, removed_positions)
           \* Snake.draw clears _removed_positions
           drawn == [positions |-> moved.positions, last |-> moved.last,
                     removed_positions |-> {}]
           step(hit, log) ==
               [ticked |-> TRUE,
                start |-> positions,
                new_head |-> moved.new_head,
                self_bite |-> moved.self_bite,
                stepped |-> moved.positions,
                stepped_foods |-> foods,
                collided |-> hit,
                eaten |-> log]
       IN /\ direction' = g.direction
          /\ apple_count' = g.apple_count
          /\ rotten_apple_count' = g.rotten_apple_count
          /\ current_speed' = g.current_speed
          /\ window_direction' = g.direction
          /\ IF CheckCollision(moved.positions, obstacles)
             THEN /\ pc' = "game_over"
                  /\ positions' = drawn.positions
                  /\ last' = drawn.last
                  /\ removed_positions' = drawn.removed_positions
                  /\ tick' = step(TRUE, <<>>)
                  /\ peak_length' = Max(peak_length, Len(drawn.positions))
                  /\ UNCHANGED <<foods, high_score>>
             ELSE \E out \in HandleFood(1, drawn, foods, ToSet(obstacles), <<>>) :
                  /\ Len(out.snake.positions) <= MaxLength
                  /\ positions' = out.snake.positions
                  /\ last' = out.snake.last
                  /\ removed_positions' = out.snake.removed_positions
                  /\ foods' = out.foods
                  /\ tick' = step(FALSE, out.eaten)
                  /\ IF out.crashed
                     THEN /\ pc' = "crashed"
                          /\ UNCHANGED <<high_score, peak_length>>
                     ELSE /\ pc' = "events"
                          /\ high_score' = UpdateHighScore(high_score,
                                               Len(out.snake.positions))
                          /\ peak_length' = Max(peak_length,
                                                Len(out.snake.positions))
    /\ last_direction_key' = NoKey
    /\ UNCHANGED <<obstacles, high_score_file, count_keys, last_setting>>

\* game_loop, line 419, and main, lines 448-449: game_loop returns and main
\* goes round its loop. Nothing reads the objects of the session that ended;
\* they are dropped here, where the source drops them when initialize_game
\* returns the new ones.
EndSession ==
    /\ pc = "game_over"
    /\ pc' = "initialize"
    /\ positions' = <<>>
    /\ direction' = None
    /\ last' = None
    /\ removed_positions' = {}
    /\ foods' = <<>>
    /\ obstacles' = <<>>
    /\ window_direction' = None
    /\ last_direction_key' = NoKey
    /\ tick' = NoTick
    /\ UNCHANGED <<state_vars, high_score_file, count_keys, last_setting,
                   peak_length>>

\* game_loop, lines 408-438: one iteration, _handle_events on the queue of
\* the tick window included.
GameLoop == \E g \in HandledEvents(KeyFields) : Iterate(g)

\* _handle_events, lines 381-382: one event of a setting key (q, w, a, s, z,
\* x). These keys act on nothing the rest of the iteration reads, so the
\* event is handled on its own.
CountKey(key) ==
    /\ pc = "events"
    /\ count_keys < MaxCountKeys
    /\ count_keys' = count_keys + 1
    /\ LET g == HandleKeys(key, KeyFields)
       IN /\ apple_count' = g.apple_count
          /\ rotten_apple_count' = g.rotten_apple_count
          /\ current_speed' = g.current_speed
    /\ UNCHANGED <<pc, snake_vars, foods, obstacles, high_score,
                   high_score_file, window_direction, last_direction_key, tick,
                   last_setting, peak_length>>

\* _handle_events, lines 381-382: one event of a setting key, followed as
\* long as the settings stay within MaxSpeed and MaxFoodCount.
SettingKey(key) ==
    /\ pc = "events"
    /\ LET g == HandleKeys(key, KeyFields)
       IN /\ g.current_speed <= MaxSpeed
          /\ g.apple_count <= MaxFoodCount
          /\ g.rotten_apple_count <= MaxFoodCount
          /\ apple_count' = g.apple_count
          /\ rotten_apple_count' = g.rotten_apple_count
          /\ current_speed' = g.current_speed
    /\ last_setting' = [key |-> key, found |-> KeyFields]
    /\ UNCHANGED <<pc, snake_vars, foods, obstacles, high_score,
                   high_score_file, window_direction, last_direction_key, tick,
                   count_keys, peak_length>>

\* _handle_events, lines 381-382: one direction key event of the queue,
\* handled on its own so that the direction it leaves is a state.
KeyDown(key) ==
    /\ pc = "events"
    /\ direction' = HandleKeys(key, KeyFields).direction
    /\ last_direction_key' = key
    /\ UNCHANGED <<pc, positions, last, removed_positions, foods, obstacles,
                   state_vars, high_score_file, window_direction, tick,
                   count_keys, last_setting, peak_length>>

Next ==
    \/ LoadHighScore
    \/ InitializeGame
    \/ GameLoop
    \/ \E key \in CountKeys : CountKey(key)
    \/ EndSession

Spec == Init /\ [][Next]_vars

\* The same program with the arrow keys of a tick window delivered one at a
\* time, and no other key pressed.
NextKeys ==
    \/ LoadHighScore
    \/ InitializeGame
    \/ \E key \in DirectionKeys : KeyDown(key)
    \/ Iterate(KeyFields)
    \/ EndSession

SpecKeys == Init /\ [][NextKeys]_vars

\* The same program with the setting keys alone, pressed any number of times
\* in the first session.
NextSettings ==
    \/ LoadHighScore
    \/ InitializeGame
    \/ \E key \in SettingKeys : SettingKey(key)

SpecSettings == Init /\ [][NextSettings]_vars

\* The same program followed from session to session: any file, up to
\* MaxSessionObstacles obstacles, no arrow key, and main's loop going round
\* as soon as game_loop returns.
NextSessions ==
    \/ LoadHighScore
    \/ InitializeGameWith(SessionObstacleDraws)
    \/ \E key \in SettingKeys : CountKey(key)
    \/ Iterate(KeyFields)
    \/ EndSession

SpecSessions ==
    /\ InitSessions
    /\ [][NextSessions]_vars
    /\ WF_vars(EndSession)
    /\ WF_vars(InitializeGameWith(SessionObstacleDraws))

\* ------------------------------------------------------------------ claims
\* The exact opposite of a direction.
Opposite(dir) == <<-dir[1], -dir[2]>>

\* A tick of the session has run to its end: the caption is set and the
\* clock waits for the next tick.
TickDone == pc = "events" /\ tick.ticked

\* The number of foods of a kind under the head right after the step of the
\* latest tick.
OnHead(kind) ==
    Cardinality({k \in 1..Len(tick.stepped_foods) :
        /\ tick.stepped_foods[k].kind = kind
        /\ tick.stepped_foods[k].position = tick.stepped[1]})

\* The cells of the snake, the obstacles and the foods, one entry per entity.
EntityCells ==
    positions \o obstacles \o [k \in 1..Len(foods) |-> foods[k].position]

\* initialize_game has just returned.
SessionStarted == pc = "events" /\ ~tick.ticked

\* C1: right after initialize_game returns, the snake's starting cell, the
\* obstacle cells and the food cells are pairwise different.
C1_SpawnCellsDisjoint ==
    SessionStarted =>
        \A i, j \in 1..Len(EntityCells) :
            i # j => EntityCells[i] # EntityCells[j]

\* C2: when the step of a tick is a self-bite, the one cell the step leaves
\* is the advanced head, new_head.
C2_SelfBiteKeepsNewHead ==
    (tick.ticked /\ tick.self_bite) => tick.stepped = <<tick.new_head>>

\* C3: the direction a step uses is never the exact opposite of the direction
\* the step before it used, whatever keys arrive in between.
C3_NoReversalBetweenSteps ==
    [][(pc = "events" /\ tick.ticked /\ tick' # tick)
        => direction' # Opposite(window_direction)]_vars

C5_GrowthLaw ==
    (TickDone /\ ~tick.self_bite /\ OnHead(GROW) >= 1 /\ OnHead(SHRINK) = 0)
        => Len(positions) = Len(tick.start) + 1

\* C5, amended: such a tick ends longer by the number of Growth foods that
\* were on the head cell.
C5_GrowthLawPerFood ==
    (TickDone /\ ~tick.self_bite /\ OnHead(GROW) >= 1 /\ OnHead(SHRINK) = 0)
        => Len(positions) = Len(tick.start) + OnHead(GROW)

C5_Witness ==
    /\ TickDone
    /\ ~tick.self_bite
    /\ OnHead(GROW) = 2
    /\ OnHead(SHRINK) = 0
    /\ Len(positions) = 3

\* C6, as stated: a tick without self-bite whose step puts the head on Shrink
\* food and on no Growth food ends with max(1, length at its start - 1).
C6_ShrinkLaw ==
    (TickDone /\ ~tick.self_bite /\ OnHead(SHRINK) >= 1 /\ OnHead(GROW) = 0)
        => Len(positions) = Max(1, Len(tick.start) - 1)

\* C6, amended: such a tick ends with max(1, length at its start - the number
\* of Shrink foods that were on the head cell).
C6_ShrinkLawPerFood ==
    (TickDone /\ ~tick.self_bite /\ OnHead(SHRINK) >= 1 /\ OnHead(GROW) = 0)
        => Len(positions) = Max(1, Len(tick.start) - OnHead(SHRINK))

C6_Witness ==
    /\ TickDone
    /\ ~tick.self_bite
    /\ OnHead(SHRINK) = 2
    /\ OnHead(GROW) = 0
    /\ Len(tick.start) = 3
    /\ Len(positions) = 1

\* C7: with several arrow keys in one tick window, the direction of the next
\* step is what the last key alone gives against the direction the window
\* began with.
C7_LastKeyDecides ==
    (pc = "events" /\ last_direction_key # NoKey) =>
        direction = UpdateDirection(window_direction,
                        DirectionMapGet(last_direction_key, window_direction))

\* C8: after every tick, the one that ends the session included, high_score
\* is at least the length of the snake and is the maximum of the loaded value
\* and the lengths at the ends of the ticks so far.
C8_HighScoreIsPeakLength ==
    (tick.ticked /\ pc \in {"events", "game_over"}) =>
        /\ high_score >= Len(positions)
        /\ high_score = peak_length

\* C9: every food under the head after the step is eaten in that tick and
\* put on a cell that is neither a cell of the body, as the effect left it,
\* nor an obstacle; the foods stay the same items of the same kinds.
C9_EatenFoodMovesToFreeCell ==
    TickDone =>
        /\ {tick.eaten[e].index : e \in 1..Len(tick.eaten)}
             = {k \in 1..Len(tick.stepped_foods) :
                    tick.stepped_foods[k].position = tick.stepped[1]}
        /\ \A e \in 1..Len(tick.eaten) :
             foods[tick.eaten[e].index].position
                \notin (ToSet(tick.eaten[e].body) \cup ToSet(obstacles))
        /\ Len(foods) = Len(tick.stepped_foods)
        /\ \A k \in 1..Len(foods) : foods[k].kind = tick.stepped_foods[k].kind

C9_Witness ==
    /\ TickDone
    /\ Len(tick.eaten) = 2
    /\ Len(positions) = 2

\* C10: when the step of a tick is a self-bite, the snake has exactly one
\* cell right after the step.
C10_SelfBiteLeavesOneCell ==
    (tick.ticked /\ tick.self_bite) => Len(tick.stepped) = 1

C10_Witness ==
    /\ tick.ticked
    /\ tick.self_bite
    /\ Len(tick.start) = 3

\* The direction an arrow key names.
KeyDirection(key) ==
    CASE key = "K_UP" -> UP
      [] key = "K_DOWN" -> DOWN
      [] key = "K_LEFT" -> LEFT
      [] key = "K_RIGHT" -> RIGHT

\* Two directions on different axes.
Perpendicular(d, e) == d[1] * e[1] + d[2] * e[2] = 0

\* C11: an arrow key naming the opposite of the current direction, or the
\* current direction itself (a null request), leaves direction as it is; a
\* key naming a perpendicular direction sets it; the step that follows moves
\* the head in the direction so left.
C11_ReversalRejected ==
    [][/\ (pc = "events" /\ pc' = "events" /\ last_direction_key' # NoKey) =>
            direction' = IF Perpendicular(KeyDirection(last_direction_key'),
                                          direction)
                         THEN KeyDirection(last_direction_key')
                         ELSE direction
       /\ (pc = "events" /\ last_direction_key # NoKey /\ tick' # tick) =>
            /\ direction' = direction
            /\ tick'.new_head = Advance(positions[1], direction)]_vars

C11_Witness ==
    /\ pc = "events"
    /\ last_direction_key = "K_LEFT"
    /\ window_direction = RIGHT
    /\ direction = RIGHT
    /\ tick.ticked
\* C12: a tick without self-bite that eats exactly one Growth food and no
\* Shrink food ends with new_head followed by the whole body the tick began
\* with.
C12_GrowRestoresTail ==
    (TickDone /\ ~tick.self_bite /\ OnHead(GROW) = 1 /\ OnHead(SHRINK) = 0)
        => positions = <<tick.new_head>> \o tick.start

C12_Witness ==
    /\ TickDone
    /\ ~tick.self_bite
    /\ OnHead(GROW) = 1
    /\ OnHead(SHRINK) = 0
    /\ Len(tick.start) = 2
    /\ Len(positions) = 3

\* A coordinate one step off an axis of the given extent, brought back on it.
Wrapped(c, extent) ==
    IF c = extent THEN 0 ELSE IF c = -1 THEN extent - 1 ELSE c

\* A session is there: initialize_game has made its snake.
InSession == pc \in {"events", "game_over"}

\* C13: every cell of the body, and the last removed tail, lies on the grid;
\* the head a step computes is the old head moved by the direction, a
\* coordinate that leaves the grid coming back on the opposite edge.
C13_WrapInvariant ==
    InSession =>
        /\ ToSet(positions) \subseteq ALL_CELLS
        /\ last \in ALL_CELLS
        /\ tick.ticked =>
             /\ tick.new_head \in ALL_CELLS
             /\ tick.new_head =
                  <<Wrapped(tick.start[1][1] + window_direction[1], GRID_WIDTH),
                    Wrapped(tick.start[1][2] + window_direction[2], GRID_HEIGHT)>>

C13_Witness ==
    /\ InSession
    /\ tick.ticked
    /\ window_direction = LEFT
    /\ tick.start[1][1] = 0
    /\ tick.new_head[1] = GRID_WIDTH - 1
    /\ positions[1] = tick.new_head

\* C14: a tick with no self-bite and no food eaten leaves new_head followed
\* by the old body without its last cell, so the length as it was.
C14_LengthConservation ==
    (InSession /\ tick.ticked /\ ~tick.self_bite /\ tick.eaten = <<>>)
        => /\ positions = <<tick.new_head>> \o Front(tick.start)
           /\ Len(positions) = Len(tick.start)

C14_Witness ==
    /\ TickDone
    /\ ~tick.self_bite
    /\ tick.eaten = <<>>
    /\ Len(tick.start) = 3
    /\ positions = <<tick.new_head>> \o Front(tick.start)

\* C15: a snake, once initialize_game has made it, always has at least one
\* cell.
C15_NeverEmpty ==
    (InSession \/ (pc = "crashed" /\ last # None)) => Len(positions) >= 1

C15_Witness ==
    /\ TickDone
    /\ Len(tick.start) = 1
    /\ OnHead(SHRINK) >= 1
    /\ OnHead(GROW) = 0
    /\ Len(positions) = 1
\* No cell appears twice in the list.
Distinct(ps) == \A i, j \in 1..Len(ps) : i # j => ps[i] # ps[j]

\* The number of Growth foods the latest tick ate.
GrowthEaten ==
    Cardinality({e \in 1..Len(tick.eaten) :
        tick.stepped_foods[tick.eaten[e].index].kind = GROW})

C20_NoFoodUnderSnakeOrObstacle ==
    (SessionStarted \/ TickDone) =>
        \A k \in 1..Len(foods) :
            foods[k].position \notin (ToSet(positions) \cup ToSet(obstacles))
C20_Witness ==
    /\ TickDone
    /\ Len(tick.start) = 2
    /\ OnHead(SHRINK) = 1
    /\ Len(tick.eaten) = 1
    /\ Len(positions) = 1
    /\ foods[tick.eaten[1].index].position = last
\* C16: after any sequence of setting keys the tick rate and both food
\* counts are at least 1, and a decrement asked for at the value 1 leaves 1.
C16_SettingsAtLeastOne ==
    pc = "events" =>
        /\ current_speed >= 1
        /\ apple_count >= 1
        /\ rotten_apple_count >= 1
        /\ (last_setting.key = "K_q" /\ last_setting.found.current_speed = 1)
             => current_speed = 1
        /\ (last_setting.key = "K_s" /\ last_setting.found.apple_count = 1)
             => apple_count = 1
        /\ (last_setting.key = "K_x"
              /\ last_setting.found.rotten_apple_count = 1)
             => rotten_apple_count = 1

C16_Witness ==
    /\ pc = "events"
    /\ last_setting.key = "K_q"
    /\ last_setting.found.current_speed = 1
    /\ current_speed = 1
    /\ apple_count = MaxFoodCount

\* The settings and the high score of the process.
Settings == <<current_speed, apple_count, rotten_apple_count, high_score>>

\* The number of foods of a kind in a list of foods.
CountOf(kind, fs) == Cardinality({k \in 1..Len(fs) : fs[k].kind = kind})

\* What initialize_game and main, line 451, leave: a snake of one cell at the
\* centre heading RIGHT, at least one obstacle, and as many foods of each
\* kind as the counts say. A formula of a step.
FreshSession ==
    /\ pc' = "events"
    /\ positions' = <<CENTER_POSITION>>
    /\ direction' = RIGHT
    /\ Len(obstacles') >= 1
    /\ CountOf(GROW, foods') = apple_count
    /\ CountOf(SHRINK, foods') = rotten_apple_count
    /\ Len(foods') = apple_count + rotten_apple_count
    /\ ~tick'.ticked

\* initialize_game raises: there are more foods to place than free cells.
\* A formula of a step.
PlacementExhausted ==
    /\ pc' = "crashed"
    /\ Cardinality(ALL_CELLS \ ({CENTER_POSITION} \cup ToSet(obstacles')))
         < apple_count + rotten_apple_count

\* C17, as stated: when a session ends main goes round at once with the
\* settings and the high score as they are, and a fresh session starts, every
\* time.
C17_NewSessionAlways ==
    /\ [][/\ pc = "game_over" => (pc' = "initialize" /\ Settings' = Settings)
          /\ pc = "initialize" => (FreshSession /\ Settings' = Settings)]_vars
    /\ (pc = "game_over") ~> SessionStarted

\* C17, amended: the same, unless the grid has fewer free cells than there
\* are foods to place, and then initialize_game raises.
C17_NewSessionUnlessExhausted ==
    /\ [][/\ pc = "game_over" => (pc' = "initialize" /\ Settings' = Settings)
          /\ pc = "initialize" =>
               /\ FreshSession \/ PlacementExhausted
               /\ Settings' = Settings]_vars
    /\ (pc = "game_over") ~> (SessionStarted \/ pc = "crashed")

C17_Witness ==
    /\ SessionStarted
    /\ peak_length = 3
    /\ high_score = 3
    /\ apple_count = 2
    /\ CountOf(GROW, foods) = 2

\* C18: load_high_score never fails: it leaves 0 for a missing file and for
\* content that is not a JSON integer, and n for the integer n.
C18_LoadNeverFails ==
    [][pc = "load" =>
        /\ pc' = "initialize"
        /\ high_score' = IF high_score_file.kind = "int"
                          THEN high_score_file.value
                          ELSE 0]_vars

====
